---- MODULE Spec2Model ----
(***************************************************************************)
(* A model of onnxconverter_common/container.py: the sklearn-style raw     *)
(* model containers and ModelComponentContainer, the accumulator of the    *)
(* pieces of an ONNX graph.                                                *)
(***************************************************************************)
EXTENDS Integers, Sequences, FiniteSets, TLC

\* Bounds of the model.
MaxCalls == 3       \* calls made on one ModelComponentContainer (Spec)
MaxNodeCalls == 1   \* add_node calls drawn from the full argument sets (SpecAddNode)
MaxSklCalls == 4    \* calls made on one sklearn-style container (SpecSklearn)
NumVars == 2        \* Variable objects handed to a ModelComponentContainer
NumSklVars == 3     \* Variable objects handed to a sklearn-style container

VARIABLES
    sk_inputs,                      \* CommonSklearnModelContainer._inputs
    sk_outputs,                     \* CommonSklearnModelContainer._outputs
    inputs,                         \* ModelComponentContainer.inputs
    outputs,                        \* ModelComponentContainer.outputs
    initializers,                   \* ModelComponentContainer.initializers
    value_info,                     \* ModelComponentContainer.value_info
    nodes,                          \* ModelComponentContainer.nodes
    node_domain_version_pair_sets,  \* ModelComponentContainer.node_domain_version_pair_sets
    target_opset,                   \* ModelComponentContainer.target_opset
    enable_optimizer,               \* ModelComponentContainer.enable_optimizer
    last,                           \* the last call: its arguments and how it ended
    ncalls,                         \* number of calls made so far
    input_calls,                    \* history: the variables of the add_input calls, in call order
    output_calls,                   \* history: the variables of the add_output calls, in call order
    ok_pairs                        \* history: (op_domain, op_version) of the add_node calls that returned

container == <<inputs, outputs, initializers, value_info, nodes,
               node_domain_version_pair_sets, target_opset, enable_optimizer>>
sklearn == <<sk_inputs, sk_outputs>>
history == <<last, ncalls, input_calls, output_calls, ok_pairs>>
vars == <<sklearn, container, history>>

(***************************************************************************)
(* Python values.  A value is a record of its runtime type (kind), its     *)
(* text when it is a string or a number (s) and, when it is iterable, the  *)
(* elements an iteration yields (items).  An element is the pair of its    *)
(* runtime type and its text.                                              *)
(***************************************************************************)
Elem(t, v) == [t |-> t, v |-> v]
PyNone == [kind |-> "NoneType", s |-> "None", items |-> <<>>]
PyInt(n) == [kind |-> "int", s |-> n, items |-> <<>>]
PyStr(s, chars) == [kind |-> "str", s |-> s, items |-> chars]
PyList(items) == [kind |-> "list", s |-> "", items |-> items]
PyTuple(items) == [kind |-> "tuple", s |-> "", items |-> items]
PySet(items) == [kind |-> "set", s |-> "", items |-> items]
PyDict(keys) == [kind |-> "dict", s |-> "", items |-> keys]

\* isinstance(v, str), isinstance(v, (list, tuple)), and whether iter(v) works.
IsStr(v) == v.kind = "str"
IsListOrTuple(v) == v.kind \in {"list", "tuple"}
Iterable(v) == v.kind \in {"str", "list", "tuple", "set", "dict"}

(***************************************************************************)
(* Variable objects (the parser's Variable class).  Each object has an     *)
(* identity; distinct objects may carry the same names.                    *)
(***************************************************************************)
RawNames == <<"input", "label">>
DocStrings == <<"None", "", "doc">>
OnnxTypeNames == <<"FloatTensorType", "Int64TensorType">>

Variable(i) ==
    [id |-> i,
     raw_name |-> RawNames[(i % 2) + 1],
     full_name |-> RawNames[(i % 2) + 1],
     type |-> [name |-> OnnxTypeNames[(i % 2) + 1],
               doc_string |-> DocStrings[(i % 3) + 1]]]

SklVariables == {Variable(i) : i \in 1..NumSklVars}
Variables == {Variable(i) : i \in 1..NumVars}

\* Variable defines no __eq__: a == b is Python's default, the identity of the objects.
VariableEq(a, b) == a.id = b.id

\* Mutant of Contains: membership by the variable's name instead of the object.
Contains_ByName(lst, variable) ==
    \E i \in DOMAIN lst : lst[i].raw_name = variable.raw_name

\* `variable in lst`: Python's list membership, x is variable or x == variable.
Contains(lst, variable) ==
    \E i \in DOMAIN lst : lst[i].id = variable.id \/ VariableEq(lst[i], variable)

(***************************************************************************)
(* CommonSklearnModelContainer (LightGbmModelContainer and                 *)
(* XGBoostModelContainer inherit everything).                              *)
(***************************************************************************)
NoLast == [op |-> "__init__"]

input_names == [i \in DOMAIN sk_inputs |-> sk_inputs[i].raw_name]
output_names == [i \in DOMAIN sk_outputs |-> sk_outputs[i].raw_name]

SklAppendIfAbsent(lst, variable) ==
    IF ~Contains(lst, variable) THEN Append(lst, variable) ELSE lst

SklAddInput(variable) ==
    /\ sk_inputs' = SklAppendIfAbsent(sk_inputs, variable)
    /\ last' = [op |-> "skl.add_input", variable |-> variable, err |-> "none"]
    /\ ncalls' = ncalls + 1
    /\ input_calls' = Append(input_calls, variable)
    /\ UNCHANGED <<sk_outputs, container, output_calls, ok_pairs>>

SklAddOutput(variable) ==
    /\ sk_outputs' = SklAppendIfAbsent(sk_outputs, variable)
    /\ last' = [op |-> "skl.add_output", variable |-> variable, err |-> "none"]
    /\ ncalls' = ncalls + 1
    /\ output_calls' = Append(output_calls, variable)
    /\ UNCHANGED <<sk_inputs, container, input_calls, ok_pairs>>

TargetOpsets == {8}

Init ==
    /\ sk_inputs = <<>>
    /\ sk_outputs = <<>>
    /\ inputs = <<>>
    /\ outputs = <<>>
    /\ initializers = <<>>
    /\ value_info = <<>>
    /\ nodes = <<>>
    /\ node_domain_version_pair_sets = {}
    /\ target_opset \in TargetOpsets
    /\ enable_optimizer = TRUE
    /\ last = NoLast
    /\ ncalls = 0
    /\ input_calls = <<>>
    /\ output_calls = <<>>
    /\ ok_pairs = {}

(***************************************************************************)
(* ModelComponentContainer.                                                *)
(***************************************************************************)

\* Variable.type.to_onnx_type(): the TypeProto of a data type.
to_onnx_type(type) ==
    CASE type.name = "FloatTensorType" -> [tensor_type |-> "FLOAT"]
      [] type.name = "Int64TensorType" -> [tensor_type |-> "INT64"]

\* The truth value of a doc_string: None and the empty string are false.
Truthy(doc_string) == doc_string \notin {"None", ""}

\* A fresh ValueInfoProto has an empty doc_string.
_make_value_info(variable) ==
    [name |-> variable.full_name,
     type |-> to_onnx_type(variable.type),
     doc_string |-> IF Truthy(variable.type.doc_string)
                    THEN variable.type.doc_string ELSE ""]

\* Mutant of add_input: a variable whose name is already declared is skipped.
add_input_Dedup(variable) ==
    /\ inputs' = IF \E i \in DOMAIN inputs : inputs[i].name = variable.full_name
                 THEN inputs ELSE Append(inputs, _make_value_info(variable))
    /\ last' = [op |-> "add_input", variable |-> variable, err |-> "none"]
    /\ ncalls' = ncalls + 1
    /\ input_calls' = Append(input_calls, variable)
    /\ UNCHANGED <<outputs, initializers, value_info, nodes,
                   node_domain_version_pair_sets, target_opset, enable_optimizer>>
    /\ UNCHANGED <<sklearn, output_calls, ok_pairs>>

add_input(variable) ==
    /\ inputs' = Append(inputs, _make_value_info(variable))
    /\ last' = [op |-> "add_input", variable |-> variable, err |-> "none"]
    /\ ncalls' = ncalls + 1
    /\ input_calls' = Append(input_calls, variable)
    /\ UNCHANGED <<outputs, initializers, value_info, nodes,
                   node_domain_version_pair_sets, target_opset, enable_optimizer>>
    /\ UNCHANGED <<sklearn, output_calls, ok_pairs>>

add_output(variable) ==
    /\ outputs' = Append(outputs, _make_value_info(variable))
    /\ last' = [op |-> "add_output", variable |-> variable, err |-> "none"]
    /\ ncalls' = ncalls + 1
    /\ output_calls' = Append(output_calls, variable)
    /\ UNCHANGED <<inputs, initializers, value_info, nodes,
                   node_domain_version_pair_sets, target_opset, enable_optimizer>>
    /\ UNCHANGED <<sklearn, input_calls, ok_pairs>>

add_value_info(variable) ==
    /\ value_info' = Append(value_info, _make_value_info(variable))
    /\ last' = [op |-> "add_value_info", variable |-> variable, err |-> "none"]
    /\ ncalls' = ncalls + 1
    /\ UNCHANGED <<inputs, outputs, initializers, nodes,
                   node_domain_version_pair_sets, target_opset, enable_optimizer>>
    /\ UNCHANGED <<sklearn, input_calls, output_calls, ok_pairs>>

(***************************************************************************)
(* add_initializer.  helper.make_tensor belongs to the ONNX library: it    *)
(* returns the tensor or raises (for instance when the number of values    *)
(* does not match the shape); which of the two is an input of the call.    *)
(***************************************************************************)
\* Mutant of HasNoneDim: only the first dimension is looked at.
HasNoneDim_FirstOnly(shape) == shape # <<>> /\ shape[1].t = "NoneType"

HasNoneDim(shape) == \E i \in DOMAIN shape : shape[i].t = "NoneType"

make_tensor(name, onnx_type, shape, content, helper) ==
    IF helper = "ok"
    THEN [err |-> "none",
          tensor |-> [name |-> name, data_type |-> onnx_type,
                      dims |-> shape, vals |-> content]]
    ELSE [err |-> helper, tensor |-> [name |-> "", data_type |-> "",
                                      dims |-> <<>>, vals |-> ""]]

\* The outcome of add_initializer: the error raised, and the list after the call.
add_initializer_result(lst, name, onnx_type, shape, content, helper) ==
    IF HasNoneDim(shape)
    THEN [err |-> "ValueError", msg |-> "Shape of initializer cannot contain None",
          helper_called |-> FALSE, initializers |-> lst]
    ELSE LET made == make_tensor(name, onnx_type, shape, content, helper) IN
         IF made.err # "none"
         THEN [err |-> made.err, msg |-> "make_tensor",
               helper_called |-> TRUE, initializers |-> lst]
         ELSE [err |-> "none", msg |-> "",
               helper_called |-> TRUE, initializers |-> Append(lst, made.tensor)]

add_initializer(name, onnx_type, shape, content, helper) ==
    LET r == add_initializer_result(initializers, name, onnx_type, shape, content, helper) IN
    /\ initializers' = r.initializers
    /\ last' = [op |-> "add_initializer", name |-> name, onnx_type |-> onnx_type,
                shape |-> shape, content |-> content, helper |-> helper,
                err |-> r.err, msg |-> r.msg, helper_called |-> r.helper_called]
    /\ ncalls' = ncalls + 1
    /\ UNCHANGED <<inputs, outputs, value_info, nodes,
                   node_domain_version_pair_sets, target_opset, enable_optimizer>>
    /\ UNCHANGED <<sklearn, input_calls, output_calls, ok_pairs>>

(***************************************************************************)
(* add_node.  The outcome of a call is a record: the error raised (err,    *)
(* "none" when the call returns), what its message says (msg, the          *)
(* attribute it names in key, the runtime types it lists in types), whether *)
(* helper.make_node was called, and the node built.                        *)
(***************************************************************************)
NoNode == [op_type |-> "", input |-> <<>>, output |-> <<>>, domain |-> "",
           attribute |-> <<>>]

Raise(err, msg, key, types, rows, called) ==
    [err |-> err, msg |-> msg, key |-> key, types |-> types, rows |-> rows,
     helper_called |-> called, node |-> NoNode]

Return(node) ==
    [err |-> "none", msg |-> "", key |-> "", types |-> <<>>, rows |-> {},
     helper_called |-> TRUE, node |-> node]

\* Lines 157-160: a single string becomes a one-element list.
WrapStr(v) == IF IsStr(v) THEN PyList(<<Elem("str", v.s)>>) ELSE v

\* Lines 161 and 164: isinstance(v, (list, tuple)) and all(isinstance(s, str) for s in v).
IsListOfStr(v) ==
    IsListOrTuple(v) /\ \A i \in DOMAIN v.items : v.items[i].t = "str"

\* Lines 162 and 165: str(type(s)) for s in v, in iteration order.
TypeList(v) == [i \in DOMAIN v.items |-> v.items[i].t]

\* Lines 161-166: the check of inputs (which = "Inputs") or outputs ("Outputs").
\* Building the message iterates the value, which raises TypeError when the
\* value is not iterable.
CheckNames(which, v) ==
    IF IsListOfStr(v) THEN Return(NoNode)
    ELSE IF ~Iterable(v)
    THEN Raise("TypeError", "object is not iterable", "", <<>>, {}, FALSE)
    ELSE Raise("ValueError", which \o " must be a list of string but get",
               "", TypeList(v), {}, FALSE)

\* The first index of a loop `for ... in seq` among the indices in S (0: none).
FirstOf(S) == IF S = {} THEN 0 ELSE CHOOSE i \in S : \A j \in S : i <= j

\* Mutant of CheckAttrs: only the first attribute is looked at.
CheckAttrs_FirstOnly(attrs) ==
    IF attrs = <<>> \/ attrs[1].v.kind # "NoneType" THEN Return(NoNode)
    ELSE Raise("ValueError", "Failed to create ONNX node. Undefined attribute pair",
               attrs[1].k, <<>>, {}, FALSE)

\* Lines 167-169: the first attribute, in the order of attrs, whose value is None.
CheckAttrs(attrs) ==
    LET i == FirstOf({j \in DOMAIN attrs : attrs[j].v.kind = "NoneType"}) IN
    IF i = 0 THEN Return(NoNode)
    ELSE Raise("ValueError", "Failed to create ONNX node. Undefined attribute pair",
               attrs[i].k, <<>>, {}, FALSE)

\* Line 175: set(type(_) for _ in v).
TypesOf(v) == {v.items[i].t : i \in DOMAIN v.items}

\* Lines 178-185: the values of v grouped by type, each group cut to its first
\* three values followed by '...'.
ValuesOfType(v, t) ==
    LET OfType(e) == e.t = t
        vv == SelectSeq(v.items, OfType)
        texts == [i \in DOMAIN vv |-> vv[i].v]
    IN IF Len(texts) > 3 THEN SubSeq(texts, 1, 3) \o <<"...">> ELSE texts

Rows(v) == {[type |-> t, values |-> ValuesOfType(v, t)] : t \in TypesOf(v)}

\* Lines 173-188: the handler of a ValueError of make_node.  The attributes are
\* visited in order; visiting one iterates its value (TypeError when it is not
\* iterable) and raises TypeError when its values have more than one type.
\* When no attribute stops the loop the ValueError is raised again.
StopsLoop(a) == ~Iterable(a.v) \/ Cardinality(TypesOf(a.v)) > 1

DiagnoseValueError(attrs) ==
    LET i == FirstOf({j \in DOMAIN attrs : StopsLoop(attrs[j])}) IN
    IF i = 0 THEN Raise("ValueError", "make_node", "", <<>>, {}, TRUE)
    ELSE IF ~Iterable(attrs[i].v)
    THEN Raise("TypeError", "object is not iterable", "", <<>>, {}, TRUE)
    ELSE Raise("TypeError", "Attribute mixes types", attrs[i].k, <<>>,
               Rows(attrs[i].v), TRUE)

\* Line 172: helper.make_node belongs to the ONNX library; whether it returns
\* the node or raises (helper) is an input of the call.  The node holds the
\* names and the attributes; its domain is empty until it is set.
make_node(op_type, ins, outs, attrs, helper) ==
    IF helper = "ok"
    THEN Return([op_type |-> op_type,
                 input |-> [i \in DOMAIN ins.items |-> ins.items[i].v],
                 output |-> [i \in DOMAIN outs.items |-> outs.items[i].v],
                 domain |-> "",
                 attribute |-> attrs])
    ELSE Raise(helper, "make_node", "", <<>>, {}, TRUE)

\* Mutant of SetDomain: the domain of the node is checked but not set.
SetDomain_NotSet(node, op_domain) ==
    IF IsStr(op_domain)
    THEN Return(node)
    ELSE Raise("TypeError", "domain", "", <<>>, {}, TRUE)

\* Line 189: node.domain = op_domain; the field takes strings only.
SetDomain(node, op_domain) ==
    IF IsStr(op_domain)
    THEN Return([node EXCEPT !.domain = op_domain.s])
    ELSE Raise("TypeError", "domain", "", <<>>, {}, TRUE)

\* Lines 157-189: the outcome of add_node before the container is touched.
add_node_outcome(op_type, ins, outs, op_domain, op_version, attrs, helper) ==
    LET ins1 == WrapStr(ins)
        outs1 == WrapStr(outs)
        made == make_node(op_type, ins1, outs1, attrs, helper)
    IN  IF CheckNames("Inputs", ins1).err # "none" THEN CheckNames("Inputs", ins1)
        ELSE IF CheckNames("Outputs", outs1).err # "none" THEN CheckNames("Outputs", outs1)
        ELSE IF CheckAttrs(attrs).err # "none" THEN CheckAttrs(attrs)
        ELSE IF made.err = "ValueError" THEN DiagnoseValueError(attrs)
        ELSE IF made.err # "none" THEN made
        ELSE SetDomain(made.node, op_domain)

\* Mutant of PairsAfter: the pair is recorded before the domain is assigned.
PairsAfter_BeforeDomain(pairs, r, op_domain, op_version) ==
    IF r.err = "none" \/ r.msg = "domain"
    THEN pairs \cup {<<op_domain.s, op_version>>} ELSE pairs

\* Mutant of PairsAfter: the set is assigned instead of added to.
PairsAfter_Assign(pairs, r, op_domain, op_version) ==
    IF r.err = "none" THEN {<<op_domain.s, op_version>>} ELSE pairs

\* Mutant of NodesAfter: the node is inserted at the front.
NodesAfter_Front(lst, r) ==
    IF r.err = "none" THEN <<r.node>> \o lst ELSE lst

\* Lines 191-192, reached only when nothing was raised.
PairsAfter(pairs, r, op_domain, op_version) ==
    IF r.err = "none" THEN pairs \cup {<<op_domain.s, op_version>>} ELSE pairs

NodesAfter(lst, r) ==
    IF r.err = "none" THEN Append(lst, r.node) ELSE lst

add_node(op_type, ins, outs, op_domain, op_version, attrs, helper) ==
    LET r == add_node_outcome(op_type, ins, outs, op_domain, op_version, attrs, helper) IN
    /\ node_domain_version_pair_sets' =
           PairsAfter(node_domain_version_pair_sets, r, op_domain, op_version)
    /\ nodes' = NodesAfter(nodes, r)
    /\ last' = [op |-> "add_node", op_type |-> op_type, inputs |-> ins,
                outputs |-> outs, op_domain |-> op_domain,
                op_version |-> op_version, attrs |-> attrs, helper |-> helper,
                err |-> r.err, msg |-> r.msg, key |-> r.key, types |-> r.types,
                rows |-> r.rows, helper_called |-> r.helper_called]
    /\ ncalls' = ncalls + 1
    /\ ok_pairs' = IF r.err = "none"
                   THEN ok_pairs \cup {<<op_domain.s, op_version>>} ELSE ok_pairs
    /\ UNCHANGED <<inputs, outputs, initializers, value_info,
                   target_opset, enable_optimizer>>
    /\ UNCHANGED <<sklearn, input_calls, output_calls>>

(***************************************************************************)
(* The calls the environment makes.                                        *)
(***************************************************************************)
Str(s) == PyStr(s, <<Elem("str", s)>>)
NoneElem == Elem("NoneType", "None")
IntElem(n) == Elem("int", n)
StrElem(s) == Elem("str", s)

\* add_initializer arguments.
Shapes == {<<IntElem("2"), IntElem("1")>>, <<IntElem("2"), NoneElem>>, <<>>}
TensorHelpers == {"ok", "ValueError"}

\* What helper.make_node can do with the attributes it is given.  It encodes
\* each value as one ONNX attribute and raises ValueError for a list whose
\* elements it cannot give one element type: a list that mixes numbers and
\* strings, a list of None.  "RuntimeError" stands for any failure of the
\* library that is not a ValueError.
Unencodable(v) ==
    /\ v.kind \in {"list", "tuple"}
    /\ \/ Cardinality({v.items[i].t : i \in DOMAIN v.items}) > 1
       \/ \E i \in DOMAIN v.items : v.items[i].t = "NoneType"

MakeNodeOutcomes(attrs) ==
    IF \E i \in DOMAIN attrs : Unencodable(attrs[i].v)
    THEN {"ValueError"}
    ELSE {"ok", "RuntimeError"}

\* add_node arguments of the calls made between other calls (Spec).
Domains == {Str(""), Str("ai.onnx.ml"), PyNone}
Versions == {1, 2}
NodeInputs == {Str("x"), PyNone, PyList(<<IntElem("1"), StrElem("x")>>)}
NodeOutputs == {PyList(<<StrElem("y")>>)}
NodeAttrs ==
    {<<>>, <<[k |-> "a", v |-> PyNone]>>,
     <<[k |-> "a", v |-> PyList(<<IntElem("1"), StrElem("a")>>)]>>}

\* add_node arguments of SpecAddNode: every combination of these, with the
\* default op_domain and op_version.
AllInputs ==
    {Str("x"), PyList(<<StrElem("x"), StrElem("z")>>), PyTuple(<<StrElem("x")>>), PyNone,
     PyInt("1"), PySet(<<StrElem("x")>>), PyList(<<IntElem("1"), StrElem("x")>>)}
AllOutputs ==
    {Str("y"), PyNone, PyDict(<<StrElem("y")>>), PyTuple(<<StrElem("y"), NoneElem>>)}
AttrValues ==
    {PyNone, PyInt("5"), PyList(<<IntElem("1"), IntElem("2")>>),
     PyList(<<NoneElem, NoneElem>>),
     PyList(<<IntElem("1"), IntElem("2"), IntElem("3"), IntElem("4"), StrElem("a")>>)}
AllAttrs ==
    {<<>>}
    \cup {<<[k |-> "a", v |-> v]>> : v \in AttrValues}
    \cup {<<[k |-> "a", v |-> v], [k |-> "b", v |-> w]>> : v \in AttrValues, w \in AttrValues}

CallAddInput ==
    /\ ncalls < MaxCalls
    /\ \E variable \in Variables : add_input(variable)

CallAddOutput ==
    /\ ncalls < MaxCalls
    /\ \E variable \in Variables : add_output(variable)

CallAddValueInfo ==
    /\ ncalls < MaxCalls
    /\ \E variable \in Variables : add_value_info(variable)

CallAddInitializer ==
    /\ ncalls < MaxCalls
    /\ \E shape \in Shapes, helper \in TensorHelpers :
           add_initializer("w", "FLOAT", shape, "[1.0, 2.0]", helper)

CallAddNode ==
    /\ ncalls < MaxCalls
    /\ \E ins \in NodeInputs, outs \in NodeOutputs, op_domain \in Domains,
          op_version \in Versions, attrs \in NodeAttrs :
        \E helper \in MakeNodeOutcomes(attrs) :
           add_node("Conv", ins, outs, op_domain, op_version, attrs, helper)

Next ==
    \/ CallAddInput
    \/ CallAddOutput
    \/ CallAddValueInfo
    \/ CallAddInitializer
    \/ CallAddNode

Spec == Init /\ [][Next]_vars

CallAnyAddNode ==
    /\ ncalls < MaxNodeCalls
    /\ \E ins \in AllInputs, outs \in AllOutputs, attrs \in AllAttrs :
        \E helper \in MakeNodeOutcomes(attrs) :
           add_node("Foo", ins, outs, Str(""), 1, attrs, helper)

NextAddNode == CallAnyAddNode

SpecAddNode == Init /\ [][NextAddNode]_vars

SklCallAddInput ==
    /\ ncalls < MaxSklCalls
    /\ \E variable \in SklVariables : SklAddInput(variable)

SklCallAddOutput ==
    /\ ncalls < MaxSklCalls
    /\ \E variable \in SklVariables : SklAddOutput(variable)

NextSklearn ==
    \/ SklCallAddInput
    \/ SklCallAddOutput

SpecSklearn == Init /\ [][NextSklearn]_vars

(***************************************************************************)
(* Properties.                                                             *)
(***************************************************************************)
IsPrefix(a, b) == Len(a) <= Len(b) /\ SubSeq(b, 1, Len(a)) = a

\* A call of op was made in this step.
Called(op) == ncalls' = ncalls + 1 /\ last'.op = op

\* C1: an add_node call that ends in an error (invalid inputs or outputs, a
\* None attribute, a failure of make_node, a failure of the domain assignment)
\* leaves every field of the container as it was before the call.
C1_FailedAddNodeChangesNothing ==
    [][(Called("add_node") /\ last'.err # "none") => container' = container]_vars

\* A domain assignment failed on a container that already holds a node and a pair.
C1_Witness ==
    /\ last.op = "add_node"
    /\ last.err = "TypeError"
    /\ last.msg = "domain"
    /\ last.helper_called
    /\ nodes # <<>>
    /\ node_domain_version_pair_sets # {}

\* C2: the container is append-only: every call, failed or not, leaves each of
\* inputs, outputs, initializers, value_info and nodes a prefix of its new
\* value, and node_domain_version_pair_sets a subset of its new value.
C2_AppendOnly ==
    [][/\ IsPrefix(inputs, inputs')
       /\ IsPrefix(outputs, outputs')
       /\ IsPrefix(initializers, initializers')
       /\ IsPrefix(value_info, value_info')
       /\ IsPrefix(nodes, nodes')
       /\ node_domain_version_pair_sets \subseteq node_domain_version_pair_sets']_vars

\* A failed call on a container that holds two nodes with different pairs.
C2_Witness ==
    /\ Len(nodes) = 2
    /\ Cardinality(node_domain_version_pair_sets) = 2
    /\ last.op \in {"add_node", "add_initializer"}
    /\ last.err # "none"

\* C3: node_domain_version_pair_sets is exactly the set of the
\* (op_domain, op_version) of the add_node calls that returned: every such
\* pair is in it (once: it is a set) and no other pair is.
C3_PairsOfSuccessfulCalls == node_domain_version_pair_sets = ok_pairs

\* Two calls returned with the same pair, then a call with another pair failed.
C3_Witness ==
    /\ Len(nodes) = 2
    /\ Cardinality(node_domain_version_pair_sets) = 1
    /\ last.op = "add_node"
    /\ last.err # "none"
    /\ IsStr(last.op_domain)
    /\ <<last.op_domain.s, last.op_version>> \notin node_domain_version_pair_sets

\* The variables of a call history without the repeats, in first-seen order;
\* two variables are the same when they are the same object.
RECURSIVE FirstSeen(_)
FirstSeen(calls) ==
    IF calls = <<>> THEN <<>>
    ELSE LET front == FirstSeen(SubSeq(calls, 1, Len(calls) - 1))
             v == calls[Len(calls)]
         IN IF \E i \in DOMAIN front : front[i].id = v.id
            THEN front ELSE Append(front, v)

\* C4: on the sklearn-style container add_input and add_output append a
\* variable only when that object is not registered yet: _inputs (_outputs)
\* holds the distinct variables of the calls in first-seen order, each once,
\* and input_names (output_names) lists their raw_name in that order.
C4_DedupFirstSeen ==
    /\ sk_inputs = FirstSeen(input_calls)
    /\ sk_outputs = FirstSeen(output_calls)
    /\ \A i, j \in DOMAIN sk_inputs : sk_inputs[i].id = sk_inputs[j].id => i = j
    /\ \A i, j \in DOMAIN sk_outputs : sk_outputs[i].id = sk_outputs[j].id => i = j
    /\ input_names = [i \in DOMAIN FirstSeen(input_calls) |->
                          FirstSeen(input_calls)[i].raw_name]
    /\ output_names = [i \in DOMAIN FirstSeen(output_calls) |->
                           FirstSeen(output_calls)[i].raw_name]

\* A variable was added twice, and two distinct variables of the same raw_name
\* are both registered.
C4_Witness ==
    /\ Len(input_calls) = 3
    /\ input_calls[1].id = input_calls[2].id
    /\ Len(sk_inputs) = 2
    /\ input_names[1] = input_names[2]

\* C5: ModelComponentContainer does not deduplicate: inputs (outputs) has one
\* record per add_input (add_output) call, the i-th being the value descriptor
\* of the i-th call's variable: its full_name, its ONNX type, and its
\* doc_string when that is not empty.
DescriptorOf(rec, variable) ==
    /\ rec.name = variable.full_name
    /\ rec.type = to_onnx_type(variable.type)
    /\ rec.doc_string = (IF variable.type.doc_string \in {"None", ""}
                         THEN "" ELSE variable.type.doc_string)

C5_OneRecordPerCall ==
    /\ Len(inputs) = Len(input_calls)
    /\ Len(outputs) = Len(output_calls)
    /\ \A i \in DOMAIN inputs : DescriptorOf(inputs[i], input_calls[i])
    /\ \A i \in DOMAIN outputs : DescriptorOf(outputs[i], output_calls[i])

\* The same variable was added twice as an input and once as an output.
C5_Witness ==
    /\ Len(inputs) = 2
    /\ input_calls[1].id = input_calls[2].id
    /\ inputs[1] = inputs[2]
    /\ Len(outputs) = 1

\* C6: add_initializer raises ValueError when a dimension of shape is None
\* and then leaves initializers unchanged; otherwise, when make_tensor
\* accepts the tensor, exactly one record is appended at the end.  No record
\* of initializers has a None dimension.
NoneIn(shape) == \E i \in DOMAIN shape : shape[i] = NoneElem

C6_Initializer ==
    [][Called("add_initializer") =>
         /\ NoneIn(last'.shape) =>
                last'.err = "ValueError" /\ initializers' = initializers
         /\ (~NoneIn(last'.shape) /\ last'.helper = "ok") =>
                /\ last'.err = "none"
                /\ initializers' =
                       Append(initializers,
                              [name |-> last'.name, data_type |-> last'.onnx_type,
                               dims |-> last'.shape, vals |-> last'.content])
         /\ \A i \in DOMAIN initializers' : ~NoneIn(initializers'[i].dims)]_vars

\* A shape with a None dimension was rejected after an initializer was added.
C6_Witness ==
    /\ last.op = "add_initializer"
    /\ NoneIn(last.shape)
    /\ last.err = "ValueError"
    /\ Len(initializers) = 1

\* An inputs or outputs argument that is neither a string nor a list or tuple
\* of strings.
Malformed(v) ==
    /\ v.kind # "str"
    /\ \/ v.kind \notin {"list", "tuple"}
       \/ \E i \in DOMAIN v.items : v.items[i].t # "str"

\* C7: every malformed inputs or outputs argument of add_node is rejected
\* with ValueError, whose message lists the runtime types of the elements; no
\* other error is raised for it.
C7_MalformedNamesRaiseValueError ==
    (last.op = "add_node" /\ (Malformed(last.inputs) \/ Malformed(last.outputs))) =>
        /\ last.err = "ValueError"
        /\ last.msg \in {"Inputs must be a list of string but get",
                         "Outputs must be a list of string but get"}
        /\ LET bad == IF Malformed(last.inputs) THEN last.inputs ELSE last.outputs
           IN last.types = [i \in DOMAIN bad.items |-> bad.items[i].t]
        /\ ~last.helper_called

\* An attribute whose values are not all of the same runtime type.
MixedAttr(a) == Cardinality({a.v.items[i].t : i \in DOMAIN a.v.items}) > 1

\* C8: when make_node raises a ValueError, add_node raises a TypeError naming
\* an attribute of mixed types when there is one, and the ValueError of
\* make_node otherwise, whatever the attribute values (scalars included).
C8_ValueErrorOfMakeNode ==
    (last.op = "add_node" /\ last.helper_called /\ last.helper = "ValueError") =>
        IF \E i \in DOMAIN last.attrs : MixedAttr(last.attrs[i])
        THEN /\ last.err = "TypeError"
             /\ last.msg = "Attribute mixes types"
             /\ \E i \in DOMAIN last.attrs :
                    MixedAttr(last.attrs[i]) /\ last.key = last.attrs[i].k
        ELSE /\ last.err = "ValueError"
             /\ last.msg = "make_node"

\* An inputs or outputs argument that add_node accepts.
WellFormed(v) ==
    \/ v.kind = "str"
    \/ v.kind \in {"list", "tuple"} /\ \A i \in DOMAIN v.items : v.items[i].t = "str"

\* C9: an add_node call with valid inputs and outputs and an attribute whose
\* value is None raises ValueError naming an attribute that is None, before
\* make_node is called, and records no node and no pair.
C9_NoneAttributeRejected ==
    [][(/\ Called("add_node")
        /\ WellFormed(last'.inputs)
        /\ WellFormed(last'.outputs)
        /\ \E i \in DOMAIN last'.attrs : last'.attrs[i].v = PyNone) =>
         /\ last'.err = "ValueError"
         /\ last'.msg = "Failed to create ONNX node. Undefined attribute pair"
         /\ \E i \in DOMAIN last'.attrs :
                last'.attrs[i].v = PyNone /\ last'.key = last'.attrs[i].k
         /\ ~last'.helper_called
         /\ nodes' = nodes
         /\ node_domain_version_pair_sets' = node_domain_version_pair_sets]_vars

\* The second of two attributes is None and make_node would have accepted the call.
C9_Witness ==
    /\ last.op = "add_node"
    /\ Len(last.attrs) = 2
    /\ last.attrs[1].v # PyNone
    /\ last.attrs[2].v = PyNone
    /\ last.helper = "ok"
    /\ last.err = "ValueError"
    /\ last.key = "b"

\* C10: the domains of the pairs of node_domain_version_pair_sets are the
\* domains of the nodes, there are no more pairs than nodes, and the set is
\* empty exactly when nodes is.
C10_PairsMatchNodes ==
    /\ {p[1] : p \in node_domain_version_pair_sets} =
           {nodes[i].domain : i \in DOMAIN nodes}
    /\ Cardinality(node_domain_version_pair_sets) <= Len(nodes)
    /\ (node_domain_version_pair_sets = {}) <=> (nodes = <<>>)

\* Three nodes of two domains, two of them with the same pair.
C10_Witness ==
    /\ Len(nodes) = 3
    /\ Cardinality(node_domain_version_pair_sets) = 2
    /\ Cardinality({nodes[i].domain : i \in DOMAIN nodes}) = 2
====
